---- MODULE Spec2Model ----
(***************************************************************************)
(* The tableau simplex solver of ITesserakt/simplex: the Big-M number type *)
(* Tax (tax_numbers.rs), the canonicalizer and tableau assembler (task.rs) *)
(* and the pivot engine SimplexSolver (simplex.rs).                        *)
(*                                                                         *)
(* Numbers are Tax<Rational64>: a pair <<re, im>> of reduced rationals,    *)
(* each rational a pair <<numerator, denominator>> with denominator > 0.   *)
(* Rows, columns and variable positions are 0-based as in the source; the  *)
(* sequences that hold them are 1-based, so entry (r, c) of the tableau is *)
(* contents[r + 1][c + 1].                                                 *)
(***************************************************************************)
EXTENDS Integers, Sequences, FiniteSets, TLC

\* ------------------------------------------------------------------ bounds
\* largest right-hand side of an input restriction and of a direct tableau
MaxFree == 1

\* ------------------------------------------------------- Ratio<i64> values
Abs(n) == IF n < 0 THEN -n ELSE n

RECURSIVE Gcd(_, _)
Gcd(x, y) == IF y = 0 THEN x ELSE Gcd(y, x % y)

\* Ratio::new: reduced, denominator positive
Ratio(n, d) ==
    LET g == Gcd(Abs(n), Abs(d))
        s == IF d < 0 THEN -1 ELSE 1
    IN  <<(s * n) \div g, (s * d) \div g>>

RatAdd(x, y) == Ratio(x[1] * y[2] + y[1] * x[2], x[2] * y[2])
RatSub(x, y) == Ratio(x[1] * y[2] - y[1] * x[2], x[2] * y[2])
RatMul(x, y) == Ratio(x[1] * y[1], x[2] * y[2])
\* the caller never divides by zero (Ratio panics there)
RatDiv(x, y) == Ratio(x[1] * y[2], x[2] * y[1])
RatCmp(x, y) ==
    LET l == x[1] * y[2]
        r == y[1] * x[2]
    IN  IF l < r THEN "Less" ELSE IF l > r THEN "Greater" ELSE "Equal"

\* ------------------------------------------------------------- Tax numbers
\* Tax(Complex { re, im }) stands for re + im * M
Tax(re, im) == <<re, im>>
\* From<T> for Tax<T>: a pure real
FromReal(n) == Tax(Ratio(n, 1), Ratio(0, 1))
Zero == Tax(Ratio(0, 1), Ratio(0, 1))
One == Tax(Ratio(1, 1), Ratio(0, 1))
IsZero(x) == x[1][1] = 0 /\ x[2][1] = 0
IntoTax(x) == Tax(Ratio(0, 1), x[1])

\* the operators delegate to Complex<T>
Add(x, y) == Tax(RatAdd(x[1], y[1]), RatAdd(x[2], y[2]))
Sub(x, y) == Tax(RatSub(x[1], y[1]), RatSub(x[2], y[2]))
\* multiplication taken component by component
Mul_componentwise(x, y) == Tax(RatMul(x[1], y[1]), RatMul(x[2], y[2]))

Mul(x, y) ==
    Tax(RatSub(RatMul(x[1], y[1]), RatMul(x[2], y[2])),
        RatAdd(RatMul(x[1], y[2]), RatMul(x[2], y[1])))
Div(x, y) ==
    LET norm_sqr == RatAdd(RatMul(y[1], y[1]), RatMul(y[2], y[2]))
        re == RatAdd(RatMul(x[1], y[1]), RatMul(x[2], y[2]))
        im == RatSub(RatMul(x[2], y[1]), RatMul(x[1], y[2]))
    IN  Tax(RatDiv(re, norm_sqr), RatDiv(im, norm_sqr))

\* the comparison taken by re first, then by im
Cmp_re_first(x, y) ==
    LET c == RatCmp(x[1], y[1])
    IN  IF c = "Equal" THEN RatCmp(x[2], y[2]) ELSE c

\* Ord for Tax: by im, then by re
Cmp(x, y) ==
    LET c == RatCmp(x[2], y[2])
    IN  IF c = "Equal" THEN RatCmp(x[1], y[1]) ELSE c
\* PartialOrd for Tax: Ratio's partial_cmp is always Some, so `?` never returns
PartialCmp(x, y) ==
    LET c == RatCmp(x[2], y[2])
    IN  IF c = "Equal" THEN RatCmp(x[1], y[1]) ELSE c
Lt(x, y) == Cmp(x, y) = "Less"
Gt(x, y) == Cmp(x, y) = "Greater"
Le(x, y) == Cmp(x, y) # "Greater"
Ge(x, y) == Cmp(x, y) # "Less"

\* ------------------------------------------------------------ SimplexSolver
VARIABLES
    pc,         \* "task" | "canonic" | "solving" | "done"
    taxes,      \* the build's `taxes` feature
    input,      \* the task as it was given to canonize()
    task,       \* SimplexTask: [restrictions, target_fn]
    max_index,  \* CanonicSimplexTask::max_index
    contents,   \* SimplexSolver::_contents, a sequence of rows
    basis,      \* SimplexSolver::basis
    aim,        \* SimplexSolver::aim
    pivoted,    \* the (row, column) of the last make_iteration(), <<>> before
    outcome,    \* "none" | "Ok" | "NoLimit" | "NoSolutions" | "Panic"
    solution,   \* Solution: [basis_coeffs, coefficients]
    calc,       \* one use of a Tax operator: [op, lhs, rhs, result, ord, partial]
    parse       \* one use of the coefficient parser: [state, text, rest, number]

vars == <<pc, taxes, input, task, max_index, contents, basis, aim, pivoted, outcome, solution, calc,
          parse>>

NRows(c) == Len(c)
NCols(c) == Len(c[1])
At(c, r, col) == c[r + 1][col + 1]

\* z(): the last row, every column of it
z(c) == c[Len(c)]
\* a(): all rows but the last, all columns but the last
a(c) == [r \in 1..(Len(c) - 1) |-> SubSeq(c[r], 1, NCols(c) - 1)]
\* b(): the last column of all rows but the last
b(c) == [r \in 1..(Len(c) - 1) |-> c[r][NCols(c)]]

\* is_optimal() with `any` for `all`
is_optimal_any(c, m) ==
    IF m = "Minimize"
    THEN \E j \in 1..Len(z(c)) : Le(z(c)[j], Zero)
    ELSE \E j \in 1..Len(z(c)) : Ge(z(c)[j], Zero)

is_optimal(c, m) ==
    IF m = "Minimize"
    THEN \A j \in 1..Len(z(c)) : Le(z(c)[j], Zero)
    ELSE \A j \in 1..Len(z(c)) : Ge(z(c)[j], Zero)

Found(v) == [ok |-> TRUE, val |-> v]
Failed(e) == [ok |-> FALSE, err |-> e]

\* max_by_key keeps the last of equal maxima, min_by_key the first of equal minima
pivot_column(c, m) ==
    LET row == z(c)
        cand == IF m = "Minimize"
                THEN {j \in 0..(Len(row) - 2) : Gt(row[j + 1], Zero)}
                ELSE {j \in 0..(Len(row) - 2) : Lt(row[j + 1], Zero)}
        best(j) == IF m = "Minimize"
                   THEN \A k \in cand :
                            \/ Lt(row[k + 1], row[j + 1])
                            \/ row[k + 1] = row[j + 1] /\ k <= j
                   ELSE \A k \in cand :
                            \/ Lt(row[j + 1], row[k + 1])
                            \/ row[k + 1] = row[j + 1] /\ j <= k
    IN  IF cand = {} THEN Failed("NoSolutions")
        ELSE Found(CHOOSE j \in cand : best(j))

\* pivot_row() with the ratio 0 kept among the candidates
pivot_row_keeps_zero(c, pivot_col) ==
    LET m == Len(c) - 1
        nonzero == {i \in 0..(m - 1) : ~IsZero(At(c, i, pivot_col))}
        ratio(i) == Div(b(c)[i + 1], At(c, i, pivot_col))
        cand == {i \in nonzero : Ge(ratio(i), Zero)}
    IN  IF cand = {} THEN Failed("NoLimit")
        ELSE Found(CHOOSE i \in cand :
                     \A k \in cand :
                        \/ Lt(ratio(i), ratio(k))
                        \/ ratio(i) = ratio(k) /\ i <= k)

pivot_row(c, pivot_col) ==
    LET m == Len(c) - 1
        nonzero == {i \in 0..(m - 1) : ~IsZero(At(c, i, pivot_col))}
        ratio(i) == Div(b(c)[i + 1], At(c, i, pivot_col))
        cand == {i \in nonzero : ~IsZero(ratio(i)) /\ Gt(ratio(i), Zero)}
    IN  IF cand = {} THEN Failed("NoLimit")
        ELSE Found(CHOOSE i \in cand :
                     \A k \in cand :
                        \/ Lt(ratio(i), ratio(k))
                        \/ ratio(i) = ratio(k) /\ i <= k)

pivot(c, m) ==
    LET col == pivot_column(c, m)
    IN  IF ~col.ok THEN col
        ELSE LET row == pivot_row(c, col.val)
             IN  IF ~row.ok THEN row
                 ELSE Found(<<row.val, col.val>>)

\* make_iteration() without the division of the pivot row by the pivot
eliminate_unnormalized(c, p_row, p_col) ==
    LET pivot_row_n == c[p_row + 1]
    IN  [i \in 1..Len(c) |->
            IF i = p_row + 1 THEN pivot_row_n
            ELSE LET pivot_coeff == c[i][p_col + 1]
                 IN  [j \in 1..NCols(c) |->
                        Add(c[i][j], Mul(Sub(Zero, pivot_coeff), pivot_row_n[j]))]]

\* make_iteration() with the objective row left out of the row operations
eliminate_keeps_objective(c, p_row, p_col) ==
    LET piv == At(c, p_row, p_col)
        pivot_row_n == [j \in 1..NCols(c) |-> Div(c[p_row + 1][j], piv)]
    IN  [i \in 1..Len(c) |->
            IF i = p_row + 1 THEN pivot_row_n
            ELSE IF i = Len(c) THEN c[i]
            ELSE LET pivot_coeff == c[i][p_col + 1]
                 IN  [j \in 1..NCols(c) |->
                        Add(c[i][j], Mul(Sub(Zero, pivot_coeff), pivot_row_n[j]))]]

\* the tableau after the row operations of make_iteration() on (p_row, p_col)
eliminate(c, p_row, p_col) ==
    LET piv == At(c, p_row, p_col)
        pivot_row_n == [j \in 1..NCols(c) |-> Div(c[p_row + 1][j], piv)]
    IN  [i \in 1..Len(c) |->
            IF i = p_row + 1 THEN pivot_row_n
            ELSE LET pivot_coeff == c[i][p_col + 1]
                 IN  [j \in 1..NCols(c) |->
                        Add(c[i][j], Mul(Sub(Zero, pivot_coeff), pivot_row_n[j]))]]

\* from_contents: the basis is the positions of the zero entries of the
\* objective row, rhs column excluded
initial_basis(c) ==
    LET row == z(c)
        zeros == {j \in 0..(Len(row) - 2) : IsZero(row[j + 1])}
        RECURSIVE collect(_)
        collect(j) == IF j > Len(row) - 2 THEN <<>>
                      ELSE IF j \in zeros THEN <<j>> \o collect(j + 1)
                      ELSE collect(j + 1)
    IN  collect(0)

Min2(x, y) == IF x < y THEN x ELSE y

\* solve(): the pairs (basis[k], b[k]), zip stops at the shorter of the two
basis_coeffs(c, bs) == [k \in 1..Min2(Len(bs), Len(c) - 1) |-> <<bs[k], b(c)[k]>>]

\* Display for Solution: the value printed as "Optimal z"
RECURSIVE sum_basis(_, _, _)
sum_basis(xs, coeffs, k) ==
    IF k > Len(coeffs) THEN Zero
    ELSE Add(Mul(xs[coeffs[k][1] + 1], coeffs[k][2]), sum_basis(xs, coeffs, k + 1))
optimal_z(sol) ==
    LET n == Len(sol.coefficients)
        xs == SubSeq(sol.coefficients, 1, n - 1)
        free_z == sol.coefficients[n]
    IN  Add(free_z, sum_basis(xs, sol.basis_coeffs, 1))

\* --------------------------------------------------- SimplexTask::canonize
\* a term is <<coefficient, index>>: SimplexTerm(F, Index)
Negate(x) == Mul(x, Sub(Zero, One))

\* the terms of every restriction: flat_map(|x| &x.terms)
AllTerms(restrictions) ==
    UNION {{restrictions[i].terms[k] : k \in 1..Len(restrictions[i].terms)} :
            i \in 1..Len(restrictions)}

MaxOf(S) == CHOOSE x \in S : \A y \in S : y <= x

\* the number of Less and Greater restrictions among the first n
RECURSIVE Added(_, _)
Added(restrictions, n) ==
    IF n = 0 THEN 0
    ELSE Added(restrictions, n - 1)
         + (IF restrictions[n].relation = "Eq" THEN 0 ELSE 1)

\* the loop body with the sign flip applied to the terms and not to the rhs
canonize_restriction_keeps_free(r, index) ==
    LET terms == IF r.relation = "Less"
                 THEN Append(r.terms, <<One, index + 1>>)
                 ELSE IF r.relation = "Greater"
                 THEN Append(r.terms, <<Negate(One), index + 1>>)
                 ELSE r.terms
    IN  IF Lt(r.free, Zero)
        THEN [terms |-> [k \in 1..Len(terms) |->
                            <<Negate(terms[k][1]), terms[k][2]>>],
              relation |-> "Eq",
              free |-> r.free]
        ELSE [terms |-> terms, relation |-> "Eq", free |-> r.free]

\* the loop body with the surplus variable added with coefficient +1
canonize_restriction_adds_surplus(r, index) ==
    LET terms == IF r.relation = "Eq" THEN r.terms
                 ELSE Append(r.terms, <<One, index + 1>>)
    IN  IF Lt(r.free, Zero)
        THEN [terms |-> [k \in 1..Len(terms) |->
                            <<Negate(terms[k][1]), terms[k][2]>>],
              relation |-> "Eq",
              free |-> Negate(r.free)]
        ELSE [terms |-> terms, relation |-> "Eq", free |-> r.free]

\* the body of the loop of canonize() for one restriction, max_index being
\* the value the loop has reached
canonize_restriction(r, index) ==
    LET terms == IF r.relation = "Less"
                 THEN Append(r.terms, <<One, index + 1>>)
                 ELSE IF r.relation = "Greater"
                 THEN Append(r.terms, <<Negate(One), index + 1>>)
                 ELSE r.terms
    IN  IF Lt(r.free, Zero)
        THEN [terms |-> [k \in 1..Len(terms) |->
                            <<Negate(terms[k][1]), terms[k][2]>>],
              relation |-> "Eq",
              free |-> Negate(r.free)]
        ELSE [terms |-> terms, relation |-> "Eq", free |-> r.free]

\* canonize() of a task that has a restriction term: [task, max_index]
canonize(t) ==
    LET first == MaxOf({x[2] : x \in AllTerms(t.restrictions)})
        rs == t.restrictions
    IN  [task |-> [restrictions |->
                       [i \in 1..Len(rs) |->
                           canonize_restriction(rs[i], first + Added(rs, i - 1))],
                   target_fn |-> t.target_fn],
         max_index |-> first + Added(rs, Len(rs))]

\* ------------------------------------------------------- tableau assembly
\* collect::<HashMap<_, _>>() keeps the last term of an index
coefficient_of(terms, index) ==
    LET ks == {k \in 1..Len(terms) : terms[k][2] = index}
    IN  IF ks = {} THEN Zero ELSE terms[MaxOf(ks)][1]

RECURSIVE SumSeq(_, _)
SumSeq(s, n) == IF n = 0 THEN Zero ELSE Add(SumSeq(s, n - 1), s[n])

\* SimplaxTaskParts: [a, b, z]
into_a_b_z(t, index) ==
    LET rs == t.restrictions
    IN  [a |-> [i \in 1..Len(rs) |->
                  [j \in 1..index |-> coefficient_of(rs[i].terms, j)]],
         b |-> [i \in 1..Len(rs) |-> rs[i].free],
         z |-> [j \in 1..index |-> coefficient_of(t.target_fn.terms, j)]
               \o <<t.target_fn.free>>]

\* add_taxes() with the penalty of a row put on its b entry as well
add_taxes_on_b(parts) ==
    LET m == Len(parts.a)
        n == Len(parts.a[1])
        taxed == [j \in 1..n |->
                    IntoTax(SumSeq([i \in 1..m |-> parts.a[i][j]], m))]
                 \o <<IntoTax(SumSeq(parts.b, m))>>
    IN  [parts EXCEPT !.z = [j \in 1..Len(parts.z) |-> Add(parts.z[j], taxed[j])],
                      !.b = [i \in 1..m |-> Add(parts.b[i], IntoTax(parts.b[i]))]]

add_taxes(parts) ==
    LET m == Len(parts.a)
        n == Len(parts.a[1])
        taxed == [j \in 1..n |->
                    IntoTax(SumSeq([i \in 1..m |-> parts.a[i][j]], m))]
                 \o <<IntoTax(SumSeq(parts.b, m))>>
    IN  [parts EXCEPT !.z = [j \in 1..Len(parts.z) |-> Add(parts.z[j], taxed[j])]]

add_basis(parts) ==
    LET index == Len(parts.z) - 1
        m == Len(parts.a)
        eye == [i \in 1..m |-> [j \in 1..m |-> IF i = j THEN One ELSE Zero]]
        appended == parts.z \o [j \in 1..m |-> Zero]
    IN  [a |-> [i \in 1..m |-> parts.a[i] \o eye[i]],
         b |-> parts.b,
         z |-> [appended EXCEPT ![index + 1] = appended[index + m + 1],
                                ![index + m + 1] = appended[index + 1]]]

invert_z(parts) ==
    [parts EXCEPT !.z = [j \in 1..Len(parts.z) |-> Negate(parts.z[j])]]

into_contents(parts) ==
    [i \in 1..Len(parts.a) |-> Append(parts.a[i], parts.b[i])] \o <<parts.z>>

\* Into<SimplexSolver<..>> for CanonicSimplexTask, with and without `taxes`
assemble(t, index, with_taxes) ==
    LET parts == into_a_b_z(t, index)
    IN  IF with_taxes
        THEN into_contents(invert_z(add_basis(add_taxes(parts))))
        ELSE into_contents(invert_z(parts))

\* ------------------------------------------------------------ solve() steps
NoTask == [restrictions |-> <<>>, target_fn |-> [terms |-> <<>>, free |-> Zero]]
NoSolution == [basis_coeffs |-> <<>>, coefficients |-> <<>>]
NoLiteral == [sign |-> "", whole |-> <<>>, dot |-> FALSE, frac |-> <<>>]
NoParse == [state |-> "none", text |-> NoLiteral, rest |-> <<>>, number |-> <<0, 1>>]
NoCalc == [op |-> "none", lhs |-> Zero, rhs |-> Zero, result |-> Zero,
           ord |-> "none", partial |-> "none"]

\* one pass of the loop of solve() whose pivot() succeeds: make_iteration().
\* `self.basis[p_row] = p_col` panics when the basis has no position p_row.
MakeIteration ==
    /\ pc = "solving"
    /\ ~is_optimal(contents, aim)
    /\ LET p == pivot(contents, aim)
       IN  /\ p.ok
           /\ contents' = eliminate(contents, p.val[1], p.val[2])
           /\ pivoted' = p.val
           /\ IF p.val[1] < Len(basis)
              THEN /\ basis' = [basis EXCEPT ![p.val[1] + 1] = p.val[2]]
                   /\ UNCHANGED <<pc, outcome>>
              ELSE /\ pc' = "done"
                   /\ outcome' = "Panic"
                   /\ UNCHANGED basis
    /\ UNCHANGED <<taxes, input, task, max_index, aim, solution, calc, parse>>

\* one pass of the loop whose pivot() fails: `?` returns the error
PivotFails ==
    /\ pc = "solving"
    /\ ~is_optimal(contents, aim)
    /\ LET p == pivot(contents, aim)
       IN  /\ ~p.ok
           /\ outcome' = p.err
    /\ pc' = "done"
    /\ UNCHANGED <<taxes, input, task, max_index, contents, basis, aim, pivoted, solution, calc, parse>>

\* the loop ends: solve() returns Ok(Solution)
SolveOk ==
    /\ pc = "solving"
    /\ is_optimal(contents, aim)
    /\ solution' = [basis_coeffs |-> basis_coeffs(contents, basis),
                    coefficients |-> z(contents)]
    /\ outcome' = "Ok"
    /\ pc' = "done"
    /\ UNCHANGED <<taxes, input, task, max_index, contents, basis, aim, pivoted, calc, parse>>

NextSolver == MakeIteration \/ PivotFails \/ SolveOk

\* ------------------------------------------- solvers built by from_contents
\* the entries of the structural columns of a directly built tableau
TableauCoefs == {-1, 0, 2}
\* the entries of its objective row
ObjectiveCoefs == {-1, 0, 1}

RealRow(s) == [j \in 1..Len(s) |-> FromReal(s[j])]

\* two constraint rows: two structural columns, the unit columns, the rhs
Tableaux ==
    {<<RealRow(<<n[1], n[2], 1, 0, r[1]>>),
       RealRow(<<n[3], n[4], 0, 1, r[2]>>),
       RealRow(<<o[1], o[2], 0, 0, o[3]>>)>> :
        n \in [1..4 -> TableauCoefs], r \in [1..2 -> 0..MaxFree],
        o \in [1..3 -> ObjectiveCoefs]}

InitSolver ==
    /\ pc = "solving"
    /\ taxes = FALSE
    /\ input = NoTask
    /\ task = NoTask
    /\ max_index = 0
    /\ contents \in Tableaux
    /\ aim \in {"Minimize", "Maximize"}
    /\ basis = initial_basis(contents)
    /\ pivoted = <<>>
    /\ outcome = "none"
    /\ solution = NoSolution
    /\ calc = NoCalc
    /\ parse = NoParse

SpecSolver == InitSolver /\ [][NextSolver]_vars

\* from_contents as a step of its own: the solver is built, then solved
FromContents ==
    /\ pc = "build"
    /\ contents' \in Tableaux
    /\ aim' \in {"Minimize", "Maximize"}
    /\ basis' = initial_basis(contents')
    /\ pc' = "solving"
    /\ UNCHANGED <<taxes, input, task, max_index, pivoted, outcome, solution, calc, parse>>

InitBuild ==
    /\ pc = "build"
    /\ taxes = FALSE
    /\ input = NoTask
    /\ task = NoTask
    /\ max_index = 0
    /\ contents = <<>>
    /\ aim = "Maximize"
    /\ basis = <<>>
    /\ pivoted = <<>>
    /\ outcome = "none"
    /\ solution = NoSolution
    /\ calc = NoCalc
    /\ parse = NoParse

NextBuild == FromContents \/ MakeIteration \/ PivotFails \/ SolveOk

\* solve() is a sequential loop, so a pass that can be taken is taken: weak
\* fairness of NextSolver. One of its three steps is enabled exactly when
\* pc = "solving" and each of them changes pc or contents, so
\* WF_vars(NextSolver), that is []<>(~ENABLED <<NextSolver>>_vars) \/
\* []<><<NextSolver>>_vars, is written with pc # "solving" for the first part.
FairSolve == []<>(pc # "solving") \/ []<><<NextSolver>>_vars

SpecSolverFair == InitBuild /\ [][NextBuild]_vars /\ FairSolve

\* ------------------------------------------------------------ the pipeline
\* canonize(): `.unwrap()` panics when no restriction has a term
Canonize ==
    /\ pc = "task"
    /\ IF AllTerms(task.restrictions) = {}
       THEN /\ pc' = "done"
            /\ outcome' = "Panic"
            /\ UNCHANGED <<task, max_index>>
       ELSE /\ task' = canonize(task).task
            /\ max_index' = canonize(task).max_index
            /\ pc' = "canonic"
            /\ UNCHANGED outcome
    /\ UNCHANGED <<taxes, input, contents, basis, aim, pivoted, solution, calc, parse>>

\* into(): the tableau is assembled and handed to from_contents
IntoSolver ==
    /\ pc = "canonic"
    /\ contents' = assemble(task, max_index, taxes)
    /\ basis' = initial_basis(contents')
    /\ aim' = "Maximize"
    /\ pc' = "solving"
    /\ UNCHANGED <<taxes, input, task, max_index, pivoted, outcome, solution, calc, parse>>

Next == Canonize \/ IntoSolver \/ MakeIteration \/ PivotFails \/ SolveOk

\* the coefficients of the terms of an input task
TaskCoefs == {-1, 1}
\* the variables an input task names
TaskIndices == {1, 2}
Relations == {"Less", "Eq", "Greater"}

InputTerms == {<<FromReal(c), i>> : c \in TaskCoefs, i \in TaskIndices}
TermLists(n) == [1..n -> InputTerms]
Restrictions(n) ==
    [terms : TermLists(n), relation : Relations,
     free : {FromReal(f) : f \in (-MaxFree)..MaxFree}]

\* the one-term restrictions on x1
OnFirst == {r \in Restrictions(1) : r.terms[1][2] = 1}

\* no restriction, one restriction of up to two terms, or a one-term
\* restriction on x1 followed by a one-term restriction
RestrictionLists ==
    {<<>>}
    \cup {<<r>> : r \in Restrictions(0) \cup Restrictions(1) \cup Restrictions(2)}
    \cup {<<r1, r2>> : r1 \in OnFirst, r2 \in Restrictions(1)}

Targets ==
    [terms : {<<<<FromReal(1), 1>>>>,
              <<<<FromReal(1), 1>>, <<FromReal(1), 2>>>>,
              <<<<FromReal(-1), 1>>, <<FromReal(1), 2>>>>},
     free : {FromReal(0), FromReal(1)}]

Init ==
    /\ pc = "task"
    /\ taxes \in BOOLEAN
    /\ task \in [restrictions : RestrictionLists, target_fn : Targets]
    /\ input = task
    /\ max_index = 0
    /\ contents = <<>>
    /\ basis = <<>>
    /\ aim = "Maximize"
    /\ pivoted = <<>>
    /\ outcome = "none"
    /\ solution = NoSolution
    /\ calc = NoCalc
    /\ parse = NoParse

Spec == Init /\ [][Next]_vars

\* ------------------------------------------------- the operators of Tax
\* largest numerator of the components of an operand
MaxTax == 2
TaxOperands == {Tax(Ratio(n, 1), Ratio(p, 1)) : n \in (-MaxTax)..MaxTax, p \in (-MaxTax)..MaxTax}

Idle == pc = "tax" /\ calc.op = "none"
Solving == <<pc, taxes, input, task, max_index, contents, basis, aim, pivoted, outcome, solution>>

TaxAdd ==
    /\ Idle
    /\ calc' = [calc EXCEPT !.op = "add", !.result = Add(calc.lhs, calc.rhs)]
    /\ UNCHANGED <<Solving, parse>>

TaxSub ==
    /\ Idle
    /\ calc' = [calc EXCEPT !.op = "sub", !.result = Sub(calc.lhs, calc.rhs)]
    /\ UNCHANGED <<Solving, parse>>

TaxMul ==
    /\ Idle
    /\ calc' = [calc EXCEPT !.op = "mul", !.result = Mul(calc.lhs, calc.rhs)]
    /\ UNCHANGED <<Solving, parse>>

\* Complex division by zero divides a Ratio by zero, which panics
TaxDiv ==
    /\ Idle
    /\ ~IsZero(calc.rhs)
    /\ calc' = [calc EXCEPT !.op = "div", !.result = Div(calc.lhs, calc.rhs)]
    /\ UNCHANGED <<Solving, parse>>

\* lhs.cmp(&rhs) and lhs.partial_cmp(&rhs)
TaxCmp ==
    /\ Idle
    /\ calc' = [calc EXCEPT !.op = "cmp",
                            !.ord = Cmp(calc.lhs, calc.rhs),
                            !.partial = PartialCmp(calc.lhs, calc.rhs)]
    /\ UNCHANGED <<Solving, parse>>

NextTax == TaxAdd \/ TaxSub \/ TaxMul \/ TaxDiv \/ TaxCmp

InitTax ==
    /\ pc = "tax"
    /\ taxes = TRUE
    /\ input = NoTask
    /\ task = NoTask
    /\ max_index = 0
    /\ contents = <<>>
    /\ basis = <<>>
    /\ aim = "Maximize"
    /\ pivoted = <<>>
    /\ outcome = "none"
    /\ solution = NoSolution
    /\ calc \in [op : {"none"}, lhs : TaxOperands, rhs : TaxOperands, result : {Zero},
                 ord : {"none"}, partial : {"none"}]
    /\ parse = NoParse

SpecTax == InitTax /\ [][NextTax]_vars

\* -------------------------------------------------- the coefficient parser
\* the input is a sequence of characters; a parser returns the rest of the
\* input with its value, or fails
DigitValue(ch) ==
    CASE ch = "0" -> 0 [] ch = "1" -> 1 [] ch = "2" -> 2 [] ch = "3" -> 3
      [] ch = "4" -> 4 [] ch = "5" -> 5 [] ch = "6" -> 6 [] ch = "7" -> 7
      [] ch = "8" -> 8 [] ch = "9" -> 9
IsDigit(ch) == ch \in {"0", "1", "2", "3", "4", "5", "6", "7", "8", "9"}

\* str::parse::<u64> of a string of digits
RECURSIVE ParseU64(_)
ParseU64(ds) ==
    IF ds = <<>> THEN 0
    ELSE 10 * ParseU64(SubSeq(ds, 1, Len(ds) - 1)) + DigitValue(ds[Len(ds)])

\* the length of the longest prefix of digits: many1(one_of("0123456789"))
RECURSIVE DigitsPrefix(_)
DigitsPrefix(s) ==
    IF s # <<>> /\ IsDigit(Head(s)) THEN 1 + DigitsPrefix(Tail(s)) ELSE 0

decimal(s) ==
    LET n == DigitsPrefix(s)
    IN  IF n = 0 THEN Failed("Many1")
        ELSE Found([rest |-> SubSeq(s, n + 1, Len(s)), value |-> ParseU64(SubSeq(s, 1, n))])

RECURSIVE ilog10(_)
ilog10(n) == IF n < 10 THEN 0 ELSE 1 + ilog10(n \div 10)

RECURSIVE Pow10(_)
Pow10(k) == IF k = 0 THEN 1 ELSE 10 * Pow10(k - 1)

\* coefficient(): sign, whole part, then "." with an optional decimal; the
\* alternative of `or` reads a lone "-" as -1
coefficient(s) ==
    LET signed == s # <<>> /\ Head(s) \in {"+", "-"}
        s1 == IF signed THEN Tail(s) ELSE s
        whole == decimal(s1)
        s2 == whole.val.rest
        dotted == s2 # <<>> /\ Head(s2) = "."
        frac == decimal(Tail(s2))
        s3 == IF ~dotted THEN s2 ELSE IF frac.ok THEN frac.val.rest ELSE Tail(s2)
        trunc0 == IF dotted /\ frac.ok THEN frac.val.value ELSE 0
        power == IF trunc0 = 0 THEN 1 ELSE Pow10(ilog10(trunc0) + 1)
        number == RatAdd(<<whole.val.value, 1>>, Ratio(trunc0, power))
    IN  IF whole.ok
        THEN Found([rest |-> s3,
                    value |-> IF signed /\ Head(s) = "-"
                              THEN RatSub(<<0, 1>>, number) ELSE number])
        ELSE IF s # <<>> /\ Head(s) = "-"
        THEN Found([rest |-> Tail(s), value |-> <<-1, 1>>])
        ELSE Failed("Char")

\* largest number of digits of the whole part and of the fractional part
MaxWhole == 2
MaxFrac == 2
\* the digits the literals are written with
LiteralDigits == {"0", "1", "5", "9"}
DigitStrings(lo, hi) == UNION {[1..n -> LiteralDigits] : n \in lo..hi}

\* optionally signed decimals with an optional fractional part
Literals ==
    [sign : {"", "+", "-"}, whole : DigitStrings(1, MaxWhole), dot : {FALSE}, frac : {<<>>}]
    \cup [sign : {"", "+", "-"}, whole : DigitStrings(1, MaxWhole), dot : {TRUE},
          frac : DigitStrings(0, MaxFrac)]

\* the characters of a literal
Chars(lit) ==
    (IF lit.sign = "" THEN <<>> ELSE <<lit.sign>>) \o lit.whole
        \o (IF lit.dot THEN <<".">> ELSE <<>>) \o lit.frac

ParseCoefficient ==
    /\ pc = "parse"
    /\ parse.state = "none"
    /\ LET r == coefficient(Chars(parse.text))
       IN  parse' = IF r.ok
                    THEN [parse EXCEPT !.state = "parsed", !.rest = r.val.rest,
                                       !.number = r.val.value]
                    ELSE [parse EXCEPT !.state = "error"]
    /\ UNCHANGED <<Solving, calc>>

InitParser ==
    /\ pc = "parse"
    /\ taxes = FALSE
    /\ input = NoTask
    /\ task = NoTask
    /\ max_index = 0
    /\ contents = <<>>
    /\ basis = <<>>
    /\ aim = "Maximize"
    /\ pivoted = <<>>
    /\ outcome = "none"
    /\ solution = NoSolution
    /\ calc = NoCalc
    /\ parse \in [state : {"none"}, text : Literals, rest : {<<>>}, number : {<<0, 1>>}]

SpecParser == InitParser /\ [][ParseCoefficient]_vars

\* ================================================================== claims
\* the improving-sign test of pivot_column() on one entry of the objective row
Improving(x, m) == IF m = "Minimize" THEN Gt(x, Zero) ELSE Lt(x, Zero)

\* C1: solve() returns a Solution only from a tableau on which is_optimal()
\* holds, and then no column of the objective row, the rhs column excluded,
\* passes the improving-sign test of the aim; the row returned is that row.
C1_SolveReturnsOnlyOptimal ==
    outcome = "Ok" =>
        /\ is_optimal(contents, aim)
        /\ solution.coefficients = z(contents)
        /\ \A j \in 1..(NCols(contents) - 1) : ~Improving(z(contents)[j], aim)

C1_Witness ==
    /\ outcome = "Ok"
    /\ pivoted # <<>>
    /\ aim = "Minimize"
    /\ \E j \in 1..(NCols(contents) - 1) : Lt(z(contents)[j], Zero)

\* one basis entry per constraint row, column basis[r] being the unit vector e_r
BasisIsIdentity(c, bs) ==
    /\ Len(bs) = Len(c) - 1
    /\ \A r \in 1..Len(bs) :
        /\ bs[r] \in 0..(NCols(c) - 2)
        /\ \A i \in 1..(Len(c) - 1) :
            c[i][bs[r] + 1] = IF i = r THEN One ELSE Zero

\* the basis assignment: x[basis[r]] = b[r], every other variable 0
BasisAssignment(c, bs, col) ==
    LET rows == {r \in 1..Len(bs) : bs[r] = col}
    IN  IF rows = {} THEN Zero ELSE b(c)[CHOOSE r \in rows : TRUE]

RowsSatisfied(c, bs) ==
    LET n == NCols(c) - 1
    IN  \A r \in 1..(Len(c) - 1) :
            SumSeq([j \in 1..n |-> Mul(c[r][j], BasisAssignment(c, bs, j - 1))], n)
                = c[r][n + 1]

\* C2: a step of solve() taken from a tableau whose basis columns are the
\* unit vectors leaves a tableau whose basis columns are the unit vectors,
\* on which the basis assignment satisfies A[r] . x = b[r] for every row r.
C2_PivotKeepsBasisIdentity ==
    [][(pc = "solving" /\ BasisIsIdentity(contents, basis))
        => (BasisIsIdentity(contents', basis') /\ RowsSatisfied(contents', basis'))]_vars

IsFraction(x) == x[1][2] # 1

C2_Witness ==
    /\ pivoted # <<>>
    /\ BasisIsIdentity(contents, basis)
    /\ RowsSatisfied(contents, basis)
    /\ basis[pivoted[1] + 1] = pivoted[2]
    /\ pivoted[2] < 2
    /\ \E i \in 1..Len(contents) : \E j \in 1..NCols(contents) : IsFraction(contents[i][j])

BNonNegative(c) == \A r \in 1..(Len(c) - 1) : Ge(b(c)[r], Zero)

\* C3: a make_iteration() taken from a tableau with every entry of b >= 0
\* leaves every entry of b >= 0, rows with b = 0 and a positive entry in the
\* pivot column included.
C3_PivotKeepsRhsNonNegative ==
    [][(pc = "solving" /\ BNonNegative(contents)) => BNonNegative(contents')]_vars

\* C4: after canonize() every restriction has relation = and rhs >= 0.
C4_CanonicRestrictions ==
    pc = "canonic" =>
        /\ Len(task.restrictions) = Len(input.restrictions)
        /\ \A i \in 1..Len(task.restrictions) :
            /\ task.restrictions[i].relation = "Eq"
            /\ Ge(task.restrictions[i].free, Zero)

C4_Witness ==
    /\ pc = "canonic"
    /\ \E i \in 1..Len(input.restrictions) :
        /\ input.restrictions[i].relation = "Greater"
        /\ Lt(input.restrictions[i].free, Zero)
    /\ \E i \in 1..Len(input.restrictions) :
        /\ input.restrictions[i].relation = "Less"
        /\ Gt(input.restrictions[i].free, Zero)

\* the values a variable of a point takes
PointValues == {-1, 0, 1, 2}
\* the points over the variables x1..xn that the restrictions of a task name
Points(t) ==
    [1..MaxOf({x[2] : x \in AllTerms(t.restrictions)}) ->
        {FromReal(v) : v \in PointValues}]

\* the left-hand side of a restriction at a point
EvalTerms(terms, x) ==
    SumSeq([k \in 1..Len(terms) |-> Mul(terms[k][1], x[terms[k][2]])], Len(terms))

Holds(r, x) ==
    LET lhs == EvalTerms(r.terms, x)
    IN  CASE r.relation = "Less" -> Le(lhs, r.free)
          [] r.relation = "Greater" -> Ge(lhs, r.free)
          [] OTHER -> lhs = r.free

\* the slack of a <= restriction, the surplus of a >= restriction at a point
ImpliedSlack(r, x) ==
    LET lhs == EvalTerms(r.terms, x)
    IN  CASE r.relation = "Less" -> Sub(r.free, lhs)
          [] r.relation = "Greater" -> Sub(lhs, r.free)
          [] OTHER -> Zero

Extended(x, index, s) ==
    [k \in (DOMAIN x) \cup {index} |-> IF k = index THEN s ELSE x[k]]

\* C5: every point that satisfies a restriction of the input satisfies the
\* canonical equality of that restriction exactly, once extended with the
\* implied slack or surplus value s >= 0 at the index canonize() added (no
\* index for ==), sign-flipped rows included.
C5_CanonizeKeepsFeasible ==
    pc = "canonic" =>
        \A i \in 1..Len(input.restrictions) : \A x \in Points(input) :
            LET r == input.restrictions[i]
                cr == task.restrictions[i]
                s == ImpliedSlack(r, x)
            IN  Holds(r, x) =>
                    IF r.relation = "Eq"
                    THEN /\ Len(cr.terms) = Len(r.terms)
                         /\ EvalTerms(cr.terms, x) = cr.free
                    ELSE /\ Len(cr.terms) = Len(r.terms) + 1
                         /\ cr.terms[Len(cr.terms)][2] \notin DOMAIN x
                         /\ Ge(s, Zero)
                         /\ EvalTerms(cr.terms,
                                Extended(x, cr.terms[Len(cr.terms)][2], s)) = cr.free

C5_Witness ==
    /\ pc = "canonic"
    /\ \E i \in 1..Len(input.restrictions) : \E x \in Points(input) :
        /\ input.restrictions[i].relation = "Greater"
        /\ Lt(input.restrictions[i].free, Zero)
        /\ Holds(input.restrictions[i], x)
        /\ Gt(ImpliedSlack(input.restrictions[i], x), Zero)

\* the objective row without its rhs entry: the z of the specification
ObjectiveCoefficients(c) == SubSeq(z(c), 1, NCols(c) - 1)

AllSigned(row, m) ==
    IF m = "Minimize"
    THEN \A j \in 1..Len(row) : Le(row[j], Zero)
    ELSE \A j \in 1..Len(row) : Ge(row[j], Zero)

\* C7: is_optimal() is true exactly when every entry of the objective row,
\* the rhs entry excluded, is <= 0 for Minimize and >= 0 for Maximize.
C7_OptimalIgnoresRhs ==
    pc = "solving" =>
        (is_optimal(contents, aim) <=> AllSigned(ObjectiveCoefficients(contents), aim))

\* C6: whenever is_optimal() is false pivot_column() finds a column, and
\* solve() never returns NoSolutions.
C6_NeverNoSolutions ==
    /\ (pc = "solving" /\ ~is_optimal(contents, aim)) => pivot_column(contents, aim).ok
    /\ outcome # "NoSolutions"

\* no constraint row has a strictly positive entry in the column
NoPositiveEntry(c, col) == \A i \in 0..(Len(c) - 2) : ~Gt(At(c, i, col), Zero)

\* C8: on a tableau with b >= 0, solve() fails with NoLimit exactly when the
\* selected pivot column has no strictly positive entry in a constraint row.
C8_NoLimitIffUnbounded ==
    /\ (outcome = "NoLimit" /\ BNonNegative(contents))
        => NoPositiveEntry(contents, pivot_column(contents, aim).val)
    /\ (pc = "solving" /\ BNonNegative(contents) /\ ~is_optimal(contents, aim)
            /\ pivot_column(contents, aim).ok
            /\ NoPositiveEntry(contents, pivot_column(contents, aim).val))
        => ~pivot_row(contents, pivot_column(contents, aim).val).ok

\* the point solve() reports: the basic variables at their values, others 0
ReportedValue(sol, index) ==
    LET ks == {k \in 1..Len(sol.basis_coeffs) : sol.basis_coeffs[k][1] + 1 = index}
    IN  IF ks = {} THEN Zero ELSE sol.basis_coeffs[CHOOSE k \in ks : TRUE][2]

\* the objective function of a task at the reported point, constant included
ObjectiveAt(target, sol) ==
    Add(target.free,
        SumSeq([k \in 1..Len(target.terms) |->
                   Mul(target.terms[k][1], ReportedValue(sol, target.terms[k][2]))],
               Len(target.terms)))

\* C9: for a task solved to Ok the printed "Optimal z" is the objective
\* function of the task, constant term included, at the reported point.
C9_OptimalZIsObjective ==
    (outcome = "Ok" /\ input # NoTask)
        => optimal_z(solution) = ObjectiveAt(input.target_fn, solution)

\* the integer components of an operand (the operands are integers)
Re(x) == x[1][1]
Im(x) == x[2][1]
IntegerTax(n, p) == <<<<n, 1>>, <<p, 1>>>>

\* the rational r is n / d
IsQuotient(r, n, d) == r[2] > 0 /\ r[1] * d = n * r[2]

\* C10 as stated: each of the four operators acts on the finite part and on
\* the penalty coefficient separately (division where both divisions exist).
C10_ComponentWise ==
    LET l == calc.lhs
        r == calc.rhs
    IN  /\ calc.op = "add" => calc.result = IntegerTax(Re(l) + Re(r), Im(l) + Im(r))
        /\ calc.op = "sub" => calc.result = IntegerTax(Re(l) - Re(r), Im(l) - Im(r))
        /\ calc.op = "mul" => calc.result = IntegerTax(Re(l) * Re(r), Im(l) * Im(r))
        /\ (calc.op = "div" /\ Re(r) # 0 /\ Im(r) # 0) =>
                /\ IsQuotient(calc.result[1], Re(l), Re(r))
                /\ IsQuotient(calc.result[2], Im(l), Im(r))

\* C10, amended: + and - act component-wise; * and / are those of Complex:
\* (a,p)*(b,q) = (ab - pq, aq + pb), and (a,p)/(b,q), for (b,q) # (0,0), is
\* ((ab + pq)/(bb + qq), (pb - aq)/(bb + qq)), the number whose product with
\* (b,q) is (a,p).
C10_TaxArithmetic ==
    LET l == calc.lhs
        r == calc.rhs
        n == Re(r) * Re(r) + Im(r) * Im(r)
    IN  /\ calc.op = "add" => calc.result = IntegerTax(Re(l) + Re(r), Im(l) + Im(r))
        /\ calc.op = "sub" => calc.result = IntegerTax(Re(l) - Re(r), Im(l) - Im(r))
        /\ calc.op = "mul" =>
                calc.result = IntegerTax(Re(l) * Re(r) - Im(l) * Im(r),
                                         Re(l) * Im(r) + Im(l) * Re(r))
        /\ calc.op = "div" =>
                /\ IsQuotient(calc.result[1], Re(l) * Re(r) + Im(l) * Im(r), n)
                /\ IsQuotient(calc.result[2], Im(l) * Re(r) - Re(l) * Im(r), n)
                /\ Mul(calc.result, r) = l

C10_Witness ==
    /\ calc.op = "mul"
    /\ Im(calc.lhs) # 0
    /\ Im(calc.rhs) # 0
    /\ Re(calc.result) # Re(calc.lhs) * Re(calc.rhs)

Reverse(o) == IF o = "Less" THEN "Greater" ELSE IF o = "Greater" THEN "Less" ELSE o

\* the order of two integers
IntCmp(x, y) == IF x < y THEN "Less" ELSE IF x > y THEN "Greater" ELSE "Equal"

\* C11: the comparison of (a,p) with (b,q) is Greater when p > q and Less
\* when p < q, whatever a and b are, and is the comparison of a with b when
\* p = q; the order is total (Equal only for equal numbers, the reverse
\* comparison gives the reverse answer, Less is transitive) and partial_cmp
\* gives the answer of cmp.
C11_TaxOrdering ==
    calc.op = "cmp" =>
        LET l == calc.lhs
            r == calc.rhs
        IN  /\ calc.ord \in {"Less", "Equal", "Greater"}
            /\ Im(l) > Im(r) => calc.ord = "Greater"
            /\ Im(l) < Im(r) => calc.ord = "Less"
            /\ Im(l) = Im(r) => calc.ord = IntCmp(Re(l), Re(r))
            /\ calc.ord = "Equal" <=> l = r
            /\ Cmp(r, l) = Reverse(calc.ord)
            /\ \A t \in TaxOperands :
                    (calc.ord = "Less" /\ Cmp(r, t) = "Less") => Cmp(l, t) = "Less"
            /\ calc.partial = calc.ord

C11_Witness ==
    /\ calc.op = "cmp"
    /\ Im(calc.lhs) > Im(calc.rhs)
    /\ Re(calc.lhs) < Re(calc.rhs)
    /\ calc.ord = "Greater"
    /\ calc.partial = "Greater"

\* C12: canonize() or the assembly of a task that has no restriction, or
\* whose restrictions have no term, ends with the error EmptyProblem returned
\* to the caller; the process does not abort.
C12_EmptyProblemReturned ==
    (pc # "task" /\ input # NoTask /\ AllTerms(input.restrictions) = {})
        => (pc = "done" /\ outcome = "EmptyProblem")

\* the digits d1 d2 .. dn read as the fraction 0.d1d2..dn
FractionValue(ds) == Ratio(ParseU64(ds), Pow10(Len(ds)))

\* the rational number a literal denotes
DecimalValue(lit) ==
    LET magnitude == RatAdd(<<ParseU64(lit.whole), 1>>, FractionValue(lit.frac))
    IN  IF lit.sign = "-" THEN RatSub(<<0, 1>>, magnitude) ELSE magnitude

\* C13: the coefficient parser reads every optionally signed decimal literal
\* to its end and returns the rational equal to its decimal value, fractional
\* parts with leading zeros ("5.05") and a trailing dot ("5.") included.
C13_CoefficientIsDecimalValue ==
    parse.state # "none" =>
        /\ parse.state = "parsed"
        /\ parse.rest = <<>>
        /\ parse.number = DecimalValue(parse.text)

\* the rhs entry of the objective row: the value of the objective
ObjectiveValue(c) == z(c)[NCols(c)]

\* the tableau solve() was started on: b >= 0, the basis columns an identity
StartsFeasible ==
    /\ pc = "solving"
    /\ pivoted = <<>>
    /\ BNonNegative(contents)
    /\ BasisIsIdentity(contents, basis)

\* C14: solve() started on a tableau with b >= 0 whose basis columns form an
\* identity eventually returns, with a Solution or with a pivot error, and
\* no pass of its loop leads back to a tableau seen before: every
\* make_iteration() moves the objective value strictly in the direction of
\* the aim.
C14_SolveTerminates ==
    /\ StartsFeasible ~> (pc = "done" /\ outcome \in {"Ok", "NoLimit", "NoSolutions"})
    /\ [][(pc = "solving" /\ BasisIsIdentity(contents, basis) /\ contents' # contents)
            => IF aim = "Maximize"
               THEN Gt(ObjectiveValue(contents'), ObjectiveValue(contents))
               ELSE Lt(ObjectiveValue(contents'), ObjectiveValue(contents))]_vars

\* solve() has returned a Solution after both starting basis columns left
C14_Witness ==
    /\ pc = "done"
    /\ outcome = "Ok"
    /\ BasisIsIdentity(contents, basis)
    /\ \A r \in 1..Len(basis) : basis[r] < 2

\* C15: a make_iteration() that succeeds with pivot (r, c) leaves entry
\* (r, c) = 1 and entry (i, c) = 0 in every other row i, the objective row
\* included, sets basis[r] = c and leaves the other basis entries as they
\* were; when the pivot selection fails the error is returned and tableau and
\* basis are as they were.
C15_MakeIterationFrame ==
    [][(pc = "solving" /\ ~is_optimal(contents, aim)) =>
        LET p == pivot(contents, aim)
        IN  IF p.ok
            THEN outcome' # "Panic" =>
                    /\ pivoted' = p.val
                    /\ At(contents', p.val[1], p.val[2]) = One
                    /\ \A i \in 0..(NRows(contents) - 1) :
                            i # p.val[1] => At(contents', i, p.val[2]) = Zero
                    /\ NRows(contents') = NRows(contents)
                    /\ NCols(contents') = NCols(contents)
                    /\ Len(basis') = Len(basis)
                    /\ basis'[p.val[1] + 1] = p.val[2]
                    /\ \A k \in 1..Len(basis) :
                            k # p.val[1] + 1 => basis'[k] = basis[k]
            ELSE /\ outcome' = p.err
                 /\ contents' = contents
                 /\ basis' = basis]_vars

\* a make_iteration() has succeeded and a later pivot selection has failed
C15_Witness ==
    /\ pivoted # <<>>
    /\ outcome \in {"NoLimit", "NoSolutions"}
    /\ At(contents, pivoted[1], pivoted[2]) = One
    /\ ~IsZero(z(contents)[NCols(contents)])

\* C16: the solver from_contents() builds from an assembled tableau with m
\* constraint rows has a basis of exactly m entries, basis[r] naming a column
\* whose constraint-row part is the unit vector e_r; so the write of
\* basis[pivot_row] never aborts and solve() pairs basis[k] with the b of the
\* row of that basic variable.
C16_InitialBasisIsIdentity ==
    /\ (pc = "solving" /\ input # NoTask /\ pivoted = <<>>)
            => BasisIsIdentity(contents, basis)
    /\ input # NoTask => outcome # "Panic" \/ AllTerms(input.restrictions) = {}
    /\ (input # NoTask /\ outcome = "Ok") =>
            /\ Len(solution.basis_coeffs) = Len(contents) - 1
            /\ \A k \in 1..Len(solution.basis_coeffs) :
                    /\ solution.basis_coeffs[k][2] = b(contents)[k]
                    /\ At(contents, k - 1, solution.basis_coeffs[k][1]) = One

\* the number has no M part
PureReal(x) == x[2][1] = 0

\* C17: in a solver assembled with add_taxes, add_basis and invert_z from a
\* task with pure real coefficients, every entry of the constraint rows (A
\* and b) is a pure real, at the start and after every make_iteration(); so
\* the entries of the pivot column and the ratios b/A that pivot_row()
\* compares are pure reals, and M terms appear in the objective row only.
C17_ConstraintRowsPureReal ==
    (taxes /\ input # NoTask /\ contents # <<>>) =>
        /\ \A r \in 1..(Len(contents) - 1) : \A j \in 1..NCols(contents) :
                PureReal(contents[r][j])
        /\ (pc = "solving" /\ pivot_column(contents, aim).ok) =>
                \A i \in 0..(Len(contents) - 2) :
                    LET col == pivot_column(contents, aim).val
                    IN  ~IsZero(At(contents, i, col)) =>
                            PureReal(Div(b(contents)[i + 1], At(contents, i, col)))

\* a Big-M run that has pivoted on an M-priced column and returned
C17_Witness ==
    /\ taxes
    /\ outcome = "Ok"
    /\ pivoted # <<>>
    /\ Len(contents) = 3
    /\ \E j \in 1..NCols(contents) : ~PureReal(z(contents)[j])
    /\ \E r \in 1..(Len(contents) - 1) : \E j \in 1..NCols(contents) :
            IsFraction(contents[r][j]) \/ Lt(contents[r][j], Zero)

\* the variable indices a list of terms names
IndicesOf(terms) == {terms[k][2] : k \in 1..Len(terms)}

\* the variable indices the input task names, in restrictions and objective
Referenced(t) ==
    UNION {IndicesOf(t.restrictions[i].terms) : i \in 1..Len(t.restrictions)}
        \cup IndicesOf(t.target_fn.terms)

\* the restrictions canonize() adds a slack or surplus variable to
Slacked(t) == {i \in 1..Len(t.restrictions) : t.restrictions[i].relation # "Eq"}

\* the index canonize() added to restriction i
SlackIndex(i) == task.restrictions[i].terms[Len(task.restrictions[i].terms)][2]

\* C18: every slack or surplus index canonize() adds is fresh: it occurs in
\* one restriction only and is no index that a restriction term or an
\* objective term of the input names; max_index ends as the largest index of
\* the input plus the number of <= and >= restrictions, and 1..max_index
\* holds every index named.
C18_SlackIndicesFresh ==
    pc = "canonic" =>
        /\ \A i \in Slacked(input) :
                /\ SlackIndex(i) \notin Referenced(input)
                /\ \A k \in 1..Len(task.restrictions) :
                        k # i => SlackIndex(i) \notin IndicesOf(task.restrictions[k].terms)
        /\ max_index = MaxOf(Referenced(input)) + Cardinality(Slacked(input))
        /\ Referenced(task) \subseteq 1..max_index
====
